---- MODULE Spec2Model ----
(***************************************************************************)
(* A model of the path tracer: ray/primitive intersection, the scene's     *)
(* closest-hit scan, the next-event-estimation integrator trace_loop_2 and *)
(* the multi-threaded renderer.                                            *)
(*                                                                         *)
(* Numbers.  The program computes in f64.  The model computes the same     *)
(* expressions over the integers, in units of the program's 0.001 (the     *)
(* self-intersection bias and the lower bound of every scene query), on    *)
(* scenes whose centres, ray origins and directions lie on the z axis, so  *)
(* that every square root and every division the code performs is exact.   *)
(* Colours are kept symbolic: a throughput is the sequence of the object   *)
(* indices whose albedo has been multiplied in, a radiance is the sequence *)
(* of the terms that have been added to it.                                *)
(*                                                                         *)
(* The vector functions that are checked on their own (onb.rs, the         *)
(* material's sample, reflect, refract, fresnel, Sphere::hit) take vectors *)
(* in fixed point: a vector of integer components stands for that vector   *)
(* divided by the scale `one`, and the arguments are the vectors for which *)
(* every root and quotient the code computes is exact at that scale.       *)
(***************************************************************************)
EXTENDS Integers, Sequences, FiniteSets, TLC

VARIABLES
    scene,        \* the Scene passed to render (read-only reference)
    camera,       \* the Camera passed to render (read-only reference)
    samples,      \* render argument
    bounces,      \* render argument
    pc,           \* control location of Renderer::render_multithreaded
    width,        \* local of render_multithreaded
    height,       \* local of render_multithreaded
    framebuffer,  \* Vec<Vec3f>: per cell, the sequence of values added to it
    worker_count, \* available_parallelism()
    chunk_size,   \* framebuffer.len() / worker_count
    chunks,       \* the slices produced by chunks_mut, in order
    spawned,      \* number of chunks the for loop has spawned a worker for
    workers,      \* per spawned worker: status, loop counters, bookkeeping
    writers,      \* per cell: the set of workers that have written it
    converted,    \* number of to_image calls
    scan,         \* the running state of one Scene::hit call
    tr,           \* the running state of one trace_loop_2 call
    call          \* one call of a pure function: its arguments, then its result

vars == <<scene, camera, samples, bounces, pc, width, height, framebuffer,
          worker_count, chunk_size, chunks, spawned, workers, writers,
          converted, scan, tr, call>>

renderVars == <<pc, width, height, framebuffer, worker_count, chunk_size,
                chunks, spawned, workers, writers, converted>>

(***************************************************************************)
(* Bounds of the model.                                                    *)
(***************************************************************************)
\* cells of the framebuffer (width x height)
MaxCells == 3
\* value of available_parallelism
MaxParallelism == 2
\* samples per pixel of a render
MaxSamples == 1
\* bounce budget of a single integrator call
MaxBounces == 2
\* bounce budget of a render
MaxRenderBounces == 1

\* the number of nested calls of Renderer::trace the stack holds
MaxStack == 4
\* objects added to a scene under construction
MaxObjects == 3

(***************************************************************************)
(* Program constants, in units of 0.001.                                   *)
(***************************************************************************)
\* f64::INFINITY: larger than every distance of the model
Infinity == 100000
\* the 0.001 lower bound of the integrator's scene queries
MinT == 1
\* the 0.001 offset of the next ray's origin along the normal
Bias == 1
\* f64::EPSILON: the smallest positive magnitude the model distinguishes
Epsilon == 1

(***************************************************************************)
(* vector.rs                                                               *)
(***************************************************************************)
Abs(a) == IF a < 0 THEN -a ELSE a

IDiv(a, b) == IF b < 0 THEN (-a) \div (-b) ELSE a \div b

Sqrt(n) == CHOOSE k \in 0..n : k * k <= n /\ (k + 1) * (k + 1) > n

Vec3(x, y, z) == <<x, y, z>>

VAdd(a, b) == <<a[1] + b[1], a[2] + b[2], a[3] + b[3]>>

VSub(a, b) == <<a[1] - b[1], a[2] - b[2], a[3] - b[3]>>

VMulS(a, s) == <<a[1] * s, a[2] * s, a[3] * s>>

VDivS(a, s) == <<IDiv(a[1], s), IDiv(a[2], s), IDiv(a[3], s)>>

VNeg(a) == <<-a[1], -a[2], -a[3]>>

Dot(a, b) == a[1] * b[1] + a[2] * b[2] + a[3] * b[3]

Cross(a, b) == <<a[2] * b[3] - a[3] * b[2],
                 a[3] * b[1] - a[1] * b[3],
                 a[1] * b[2] - a[2] * b[1]>>

Length(a) == Sqrt(Dot(a, a))

Normalize(a) == VDivS(a, Length(a))

\* the scale of the direction vectors of the scenes: 1 stands for 1.0
Unit == 1

\* the scale of the vectors of the separately checked functions: 25 stands for 1.0
Fx == 25

\* normalize on vectors of scale `one`
NormalizeTo(a, one) == VDivS(VMulS(a, one), Length(a))

(***************************************************************************)
(* ray.rs                                                                  *)
(***************************************************************************)
Ray(origin, direction) == [origin |-> origin, direction |-> direction]

PointAt(ray, t) == VAdd(ray.origin, VMulS(ray.direction, t))

\* point_at on a ray whose direction has scale `one`
PointAtTo(ray, t, one) == VAdd(ray.origin, VDivS(VMulS(ray.direction, t), one))

(***************************************************************************)
(* geometry.rs: Hit, Sphere, Triangle, Mesh, Geometry                      *)
(***************************************************************************)
None == [some |-> FALSE]

Some(h) == [some |-> TRUE, hit |-> h]

Hit(t, normal, point, idx) == [t |-> t, normal |-> normal, point |-> point, idx |-> idx]

HitDefault == Hit(Infinity, Vec3(0, 0, 0), Vec3(0, 0, 0), 0)

Sphere(center, radius) == [type |-> "SPHERE", center |-> center, radius |-> radius]

Triangle(v0, v1, v2) == <<v0, v1, v2>>

Mesh(triangles) == [type |-> "MESH", triangles |-> triangles]

\* Sphere::hit, lines 211-216: the hit record at the selected root
SphereAccept(s, ray, min_t, max_t, t, one) ==
    IF min_t < t /\ t < max_t
    THEN Some(Hit(t, VDivS(VMulS(VSub(PointAtTo(ray, t, one), s.center), one), s.radius),
                  PointAtTo(ray, t, one), 0))
    ELSE None

\* the smaller root whatever its sign
SelectRoot_Smaller(b, root) == -b - root

\* Sphere::hit, lines 205-209: the smaller root, the larger one if that is negative
SelectRoot(b, root) == IF -b - root < 0 THEN -b + root ELSE -b - root

\* Sphere::hit, lines 196-209
SphereRoots(s, ray, min_t, max_t, b, c, one) ==
    IF 0 < c /\ 0 < b THEN None
    ELSE IF b * b - c < 0 THEN None
    ELSE SphereAccept(s, ray, min_t, max_t, SelectRoot(b, Sqrt(b * b - c)), one)

\* Sphere::hit, lines 193-194
SphereQuadratic(s, ray, min_t, max_t, m, one) ==
    SphereRoots(s, ray, min_t, max_t,
                IDiv(Dot(m, ray.direction), one), Dot(m, m) - s.radius * s.radius, one)

\* Sphere::hit on a ray whose direction has scale `one`
SphereHit(s, ray, min_t, max_t, one) ==
    SphereQuadratic(s, ray, min_t, max_t, VSub(ray.origin, s.center), one)

\* Triangle::hit, lines 241-263: the three same-side tests
TriangleInside(tri, normal, t, point) ==
    IF Dot(normal, Cross(VSub(tri[2], tri[1]), VSub(point, tri[1]))) < 0 THEN None
    ELSE IF Dot(normal, Cross(VSub(tri[3], tri[2]), VSub(point, tri[2]))) < 0 THEN None
    ELSE IF Dot(normal, Cross(VSub(tri[1], tri[3]), VSub(point, tri[3]))) < 0 THEN None
    ELSE Some(Hit(t, normal, point, 0))

\* Triangle::hit, lines 237-239: the range test
TriangleRange(tri, ray, min_t, max_t, normal, t) ==
    IF t < min_t /\ t > max_t THEN None
    ELSE TriangleInside(tri, normal, t, PointAt(ray, t))

\* Triangle::hit, lines 230-236: the parallel test and the plane distance
TriangleSolve(tri, ray, min_t, max_t, normal, ndot, d) ==
    IF Abs(ndot) < Epsilon THEN None
    ELSE TriangleRange(tri, ray, min_t, max_t, normal,
                       IDiv(-(Dot(normal, ray.origin) + d), ndot))

\* Triangle::hit, lines 228-234
TrianglePlane(tri, ray, min_t, max_t, normal) ==
    TriangleSolve(tri, ray, min_t, max_t, normal,
                  Dot(normal, ray.direction), -Dot(normal, tri[1]))

TriangleHit(tri, ray, min_t, max_t) ==
    TrianglePlane(tri, ray, min_t, max_t,
                  Normalize(Cross(VSub(tri[2], tri[1]), VSub(tri[3], tri[1]))))

\* `if hit_record.is_some() { return hit_record; }`, else the rest of the scan
FirstHit(hit_record, rest) == IF hit_record.some THEN hit_record ELSE rest

RECURSIVE MeshHitFrom(_, _, _, _, _)
MeshHitFrom(triangles, k, ray, min_t, max_t) ==
    IF k > Len(triangles) THEN None
    ELSE FirstHit(TriangleHit(triangles[k], ray, min_t, max_t),
                  MeshHitFrom(triangles, k + 1, ray, min_t, max_t))

MeshHit(mesh, ray, min_t, max_t) == MeshHitFrom(mesh.triangles, 1, ray, min_t, max_t)

GeometryHit(g, ray, min_t, max_t) ==
    IF g.type = "MESH" THEN MeshHit(g, ray, min_t, max_t)
    ELSE SphereHit(g, ray, min_t, max_t, Unit)

(***************************************************************************)
(* geometry.rs: Object, Scene.  Object indices are 0-based as in the code; *)
(* a light is an index into the object list.                               *)
(***************************************************************************)
\* a material of the given type; the index of refraction is a rational <<n, d>>
MaterialOf(material, ior, emittance) ==
    [material |-> material, ior |-> ior, emittance |-> emittance]

\* a diffuse material
Material(emittance) == MaterialOf("Lambert", <<1, 1>>, emittance)

Object(geometry, material) == [geometry |-> geometry, material |-> material]

SceneNew(background) == [background |-> background, objects |-> <<>>, lights |-> <<>>]

\* an add that puts the object in front of the list
SceneAdd_Prepend(s, object) == [s EXCEPT !.objects = <<object>> \o @]

SceneAdd(s, object) == [s EXCEPT !.objects = Append(@, object)]

ObjectAt(s, idx) == s.objects[idx + 1]

\* `if let Some(hit) = ... { closest = hit; closest.idx = i; }`
Closer(closest, r, i) == IF r.some THEN [r.hit EXCEPT !.idx = i] ELSE closest

\* one iteration of the for loop of Scene::hit: object i against (min_t, closest.t)
SceneHitStep(s, ray, min_t, closest, i) ==
    Closer(closest, GeometryHit(ObjectAt(s, i).geometry, ray, min_t, closest.t), i)

RECURSIVE SceneHitLoop(_, _, _, _, _)
SceneHitLoop(s, ray, min_t, closest, i) ==
    IF i >= Len(s.objects) THEN closest
    ELSE SceneHitLoop(s, ray, min_t, SceneHitStep(s, ray, min_t, closest, i), i + 1)

SceneHitResult(closest, max_t) == IF closest.t < max_t THEN Some(closest) ELSE None

SceneHit(s, ray, min_t, max_t) ==
    SceneHitResult(SceneHitLoop(s, ray, min_t, [HitDefault EXCEPT !.t = max_t], 0), max_t)

(***************************************************************************)
(* The scenes and cameras the model explores.  Everything lies on the z    *)
(* axis: a light sphere around the origin, the camera at z = 6, a ball     *)
(* around z = 12, and triangles in planes z = const that contain the axis. *)
(***************************************************************************)
LightSphere == Object(Sphere(Vec3(0, 0, 0), 2), Material(5))

FarLight == Object(Sphere(Vec3(0, 0, 24), 2), Material(3))

Ball == Object(Sphere(Vec3(0, 0, 12), 2), Material(0))

\* the ball with a material of another type
BallOf(material, ior) == Object(Sphere(Vec3(0, 0, 12), 2), MaterialOf(material, ior, 0))

TriangleAt(z) == Triangle(Vec3(-2, -1, z), Vec3(0, 2, z), Vec3(2, -1, z))

\* a triangle in the plane z that the axis does not pass through
TriangleAside(z) == Triangle(Vec3(3, 3, z), Vec3(5, 6, z), Vec3(7, 3, z))

Occluder == Object(Mesh(<<TriangleAt(4)>>), Material(0))

Wall == Object(Mesh(<<TriangleAside(16), TriangleAt(18), TriangleAt(16)>>), Material(0))

WithLights(s, lights) == [s EXCEPT !.lights = lights]

SceneEmpty == SceneNew("background")

SceneLit == WithLights(SceneAdd(SceneAdd(SceneEmpty, LightSphere), Ball), <<0>>)

SceneOccluded == WithLights(SceneAdd(SceneLit, Occluder), <<0>>)

SceneWall == WithLights(SceneAdd(SceneLit, Wall), <<0>>)

SceneNoLights == SceneAdd(SceneEmpty, Ball)

SceneTwoLights == WithLights(SceneAdd(SceneLit, FarLight), <<0, 2>>)

SceneOf(ball) == WithLights(SceneAdd(SceneAdd(SceneEmpty, LightSphere), ball), <<0>>)

SceneMirror == SceneOf(BallOf("Mirror", <<1, 1>>))

SceneGlass == SceneOf(BallOf("Transparent", <<4, 3>>))

ScenePhysical == SceneOf(BallOf("Physical", <<1, 1>>))

Scenes == {SceneEmpty, SceneLit, SceneOccluded, SceneWall, SceneNoLights, SceneTwoLights,
           SceneMirror, SceneGlass, ScenePhysical}

AxisZ == Vec3(0, 0, 1)

AxisX == Vec3(1, 0, 0)

CameraNew(position, res) == [position |-> position, resolution |-> res]

Resolutions == {res \in (1..MaxCells) \X (1..MaxCells) : res[1] * res[2] <= MaxCells}

Cameras == {CameraNew(Vec3(0, 0, 6), res) : res \in Resolutions}

(***************************************************************************)
(* The idle values of the variables a specification does not use.          *)
(***************************************************************************)
ScanIdle == [status |-> "idle"]

TrIdle == [status |-> "idle"]

CallIdle == [status |-> "idle"]

RenderIdle ==
    /\ pc = "idle"
    /\ width = 0
    /\ height = 0
    /\ framebuffer = <<>>
    /\ worker_count = 0
    /\ chunk_size = 0
    /\ chunks = <<>>
    /\ spawned = 0
    /\ workers = <<>>
    /\ writers = <<>>
    /\ converted = 0

(***************************************************************************)
(* SpecHit: one call Scene::hit(ray, min_t, max_t), one object per step.   *)
(***************************************************************************)
ScanOrigins == {Vec3(0, 0, 6), Vec3(0, 0, 9), Vec3(0, 0, 15)}

ScanDirections == {AxisZ, VNeg(AxisZ), AxisX}

ScanMinT == {0, MinT}

ScanMaxT == {Infinity, 5}

InitHit ==
    /\ scene \in Scenes
    /\ camera \in Cameras
    /\ samples = 0
    /\ bounces = 0
    /\ RenderIdle
    /\ tr = TrIdle
    /\ call = CallIdle
    /\ \E o \in ScanOrigins, d \in ScanDirections, lo \in ScanMinT, hi \in ScanMaxT :
          scan = [status |-> "loop", ray |-> Ray(o, d), min_t |-> lo, max_t |-> hi,
                  i |-> 0, closest |-> [HitDefault EXCEPT !.t = hi], result |-> None]

ScanObject ==
    /\ scan.status = "loop"
    /\ scan.i < Len(scene.objects)
    /\ scan' = [scan EXCEPT
                  !.closest = SceneHitStep(scene, scan.ray, scan.min_t, scan.closest, scan.i),
                  !.i = scan.i + 1]
    /\ UNCHANGED <<call, scene, camera, samples, bounces, renderVars, tr>>

ScanFinish ==
    /\ scan.status = "loop"
    /\ scan.i >= Len(scene.objects)
    /\ scan' = [scan EXCEPT !.status = "done",
                            !.result = SceneHitResult(scan.closest, scan.max_t)]
    /\ UNCHANGED <<call, scene, camera, samples, bounces, renderVars, tr>>

NextHit == ScanObject \/ ScanFinish

SpecHit == InitHit /\ [][NextHit]_vars

(***************************************************************************)
(* The intersections of an object with a ray, whatever the range: the root *)
(* Sphere::hit selects, the plane distances of the triangles of a mesh     *)
(* that contain the intersection point.                                    *)
(***************************************************************************)
Intersections(g, ray) ==
    IF g.type = "SPHERE"
    THEN LET r == SphereHit(g, ray, -Infinity, Infinity, Unit)
         IN  IF r.some THEN {r.hit.t} ELSE {}
    ELSE {TriangleHit(g.triangles[k], ray, -Infinity, Infinity).hit.t :
             k \in {j \in 1..Len(g.triangles) :
                       TriangleHit(g.triangles[j], ray, -Infinity, Infinity).some}}

(***************************************************************************)
(* onb.rs                                                                  *)
(***************************************************************************)
\* a helper axis that switches at 0.5 instead of 0.9
HelperAxis_LowThreshold(up, one) ==
    IF Abs(up[1]) * 10 > 5 * one THEN Vec3(0, one, 0) ELSE Vec3(one, 0, 0)

\* 'a' must not be parallel to 'up'; up.x.abs() > 0.9 at scale `one`
HelperAxis(up, one) ==
    IF Abs(up[1]) * 10 > 9 * one THEN Vec3(0, one, 0) ELSE Vec3(one, 0, 0)

\* the helper axis taken as the right axis
OnbAxes_RightIsHelper(up, front, one) == <<HelperAxis(up, one), front, up>>

\* axis = [right, front, up]
OnbAxes(up, front, one) == <<VDivS(Cross(up, front), one), front, up>>

OnbNew(up, one) == OnbAxes(up, NormalizeTo(Cross(up, HelperAxis(up, one)), one), one)

OnbRight(onb) == onb[1]

OnbFront(onb) == onb[2]

OnbUp(onb) == onb[3]

OnbTransform(onb, a, one) ==
    VDivS(VAdd(VAdd(VMulS(OnbRight(onb), a[1]), VMulS(OnbFront(onb), a[2])),
               VMulS(OnbUp(onb), a[3])), one)

LocalToWorld(w, a, one) == OnbTransform(OnbNew(w, one), NormalizeTo(a, one), one)

(***************************************************************************)
(* Rational numbers <<numerator, denominator>> in lowest terms, with a     *)
(* positive denominator: the index of refraction, the Fresnel term, the    *)
(* uniform draw r and the scalar factor of a weight.                       *)
(***************************************************************************)
RECURSIVE Gcd(_, _)
Gcd(a, b) == IF b = 0 THEN a ELSE Gcd(b, a % b)

Reduce(n, d, g) == <<IDiv(n, g), IDiv(d, g)>>

Ratio(n, d) == IF d < 0 THEN Reduce(-n, -d, Gcd(Abs(n), Abs(d))) ELSE Reduce(n, d, Gcd(Abs(n), Abs(d)))

RatMul(a, b) == Ratio(a[1] * b[1], a[2] * b[2])

RatAdd(a, b) == Ratio(a[1] * b[2] + b[1] * a[2], a[2] * b[2])

RatSub(a, b) == Ratio(a[1] * b[2] - b[1] * a[2], a[2] * b[2])

RatLeq(a, b) == a[1] * b[2] <= b[1] * a[2]

RatOne == Ratio(1, 1)

(***************************************************************************)
(* common.rs: reflect, refract, fresnel                                    *)
(***************************************************************************)
\* a reflection that only removes the normal component
Reflect_Project(incident, normal, one) ==
    VSub(incident, VDivS(VMulS(normal, Dot(incident, normal)), one * one))

\* incident - normal * 2.0 * dot(incident, normal)
Reflect(incident, normal, one) ==
    VSub(incident, VDivS(VMulS(normal, 2 * Dot(incident, normal)), one * one))

\* kk = k * (eta[2] * one)^2 for k = 1 - eta^2 (1 - cosi^2)
RefractK(eta, cosi, one) ==
    eta[2] * eta[2] * one * one - eta[1] * eta[1] * (one * one - cosi * cosi)

\* lines 39-44
RefractDirection(incident, n, eta, cosi, kk, one) ==
    IF kk < 0
    THEN Vec3(0, 0, 0)
    ELSE VDivS(VAdd(VMulS(incident, eta[1] * one), VMulS(n, eta[1] * cosi - Sqrt(kk))),
               eta[2] * one)

\* lines 29-36: the side of the surface decides eta = etai / etat and the sign of n
RefractSide(incident, normal, ior, cosi, one) ==
    IF cosi < 0
    THEN RefractDirection(incident, normal, <<ior[2], ior[1]>>, -cosi,
                          RefractK(<<ior[2], ior[1]>>, -cosi, one), one)
    ELSE RefractDirection(incident, VNeg(normal), ior, cosi, RefractK(ior, cosi, one), one)

Refract(incident, normal, ior, one) ==
    RefractSide(incident, normal, ior, IDiv(Dot(incident, normal), one), one)

\* rs and rp of lines 74-75, with cost = ct / (ior[1] * one)
FresnelRs(ior, cosi, ct) ==
    Ratio(ior[1] * ior[1] * cosi - ior[2] * ct, ior[1] * ior[1] * cosi + ior[2] * ct)

FresnelRp(ior, cosi, ct) == Ratio(ior[2] * cosi - ct, ior[2] * cosi + ct)

\* (rs * rs + rp * rp) / 2.0
FresnelMean(rs, rp) == RatMul(RatAdd(RatMul(rs, rs), RatMul(rp, rp)), Ratio(1, 2))

\* lines 68-77: sint = sn / (ior[1] * one); etai is 1.0 on either side of the surface
FresnelKr(ior, cosi, sn, one) ==
    IF sn >= ior[1] * one
    THEN RatOne
    ELSE FresnelMean(FresnelRs(ior, Abs(cosi), Sqrt(ior[1] * ior[1] * one * one - sn * sn)),
                     FresnelRp(ior, Abs(cosi), Sqrt(ior[1] * ior[1] * one * one - sn * sn)))

FresnelSint(ior, cosi, one) == FresnelKr(ior, cosi, ior[2] * Sqrt(one * one - cosi * cosi), one)

\* fresnel returns 1.0 - kr
Fresnel(incident, normal, ior, one) ==
    RatSub(RatOne, FresnelSint(ior, IDiv(Dot(incident, normal), one), one))

(***************************************************************************)
(* material.rs: Material::sample.  A weight is a colour `base` times a     *)
(* rational: "albedo" is self.albedo, "cook_torrance" the Cook-Torrance    *)
(* term of lines 180-191, "nan" the quotient 0.0 / 0.0.                    *)
(***************************************************************************)
MaterialTypes == {"Mirror", "Uniform", "Lambert", "Physical", "Transparent"}

Weight(base, times) == [base |-> base, times |-> times]

Sample(wi, weight) == [wi |-> wi, weight |-> weight]

\* lines 128-141
SampleTransparent(m, normal, wo, r, fr, one) ==
    IF RatLeq(r, fr)
    THEN Sample(Refract(VNeg(wo), normal, m.ior, one), Weight("albedo", fr))
    ELSE Sample(Reflect(VNeg(wo), normal, one), Weight("albedo", RatSub(RatOne, fr)))

\* lines 142-149: brdf * cos_theta / pdf with pdf = cos_theta / PI
SampleLambert(normal, wi, cos_theta) ==
    Sample(wi, IF cos_theta = 0 THEN Weight("nan", RatOne) ELSE Weight("albedo", RatOne))

\* lines 150-157: brdf * cos_theta / pdf with pdf = 1 / (2 PI)
SampleUniform(normal, wi, cos_theta, one) == Sample(wi, Weight("albedo", Ratio(2 * cos_theta, one)))

\* lines 158-192: bsdf * cos_theta / pdf with pdf = cos_theta / PI and
\* bsdf = F D G / (4 cos_theta dot(normal, wo)).  G has the factor
\* max(dot(normal, wo), 0) (lines 66-76); normalize(wo + wi) is NaN for wo = -wi
SamplePhysical(normal, wo, wi, cos_theta, ndotv) ==
    Sample(wi, IF cos_theta = 0 \/ ndotv = 0 \/ wo = VNeg(wi) THEN Weight("nan", RatOne)
               ELSE IF ndotv < 0 THEN Weight("cook_torrance", Ratio(0, 1))
               ELSE Weight("cook_torrance", RatOne))

SampleHemisphere(m, normal, wo, wi, one) ==
    IF m.material = "Lambert" THEN SampleLambert(normal, wi, Dot(normal, wi))
    ELSE IF m.material = "Uniform" THEN SampleUniform(normal, wi, IDiv(Dot(normal, wi), one), one)
    ELSE SamplePhysical(normal, wo, wi, Dot(normal, wi), Dot(normal, wo))

\* sample(&self, normal, wo); r and local are the random draws
MaterialSample(m, normal, wo, r, local, one) ==
    IF m.material = "Mirror" THEN Sample(Reflect(VNeg(wo), normal, one), Weight("albedo", RatOne))
    ELSE IF m.material = "Transparent"
    THEN SampleTransparent(m, normal, wo, r, Fresnel(VNeg(wo), normal, m.ior, one), one)
    ELSE SampleHemisphere(m, normal, wo, LocalToWorld(normal, local, one), one)

(***************************************************************************)
(* material.rs: Material::sample_f and Material::bsdf.  A density is 1.0   *)
(* ("one") or cos / PI ("cos_over_pi"); a BSDF value is albedo / PI        *)
(* ("over_pi") or albedo / cos ("over_cos"); cos is of scale `one`.        *)
(***************************************************************************)
Panicked == [status |-> "panicked"]

\* lines 81-86
SampleFLambert(normal, wi, one) ==
    [status |-> "ok", wi |-> wi,
     pdf |-> [kind |-> "cos_over_pi", cos |-> Abs(IDiv(Dot(normal, wi), one))]]

\* lines 87-103: the density of either specular branch is 1.0
SampleFSpecular(wi) == [status |-> "ok", wi |-> wi, pdf |-> [kind |-> "one"]]

\* lines 92-102
SampleFTransparent(m, normal, wo, r, fr, one) ==
    IF RatLeq(r, fr)
    THEN SampleFSpecular(Refract(VNeg(wo), normal, m.ior, one))
    ELSE SampleFSpecular(Reflect(VNeg(wo), normal, one))

\* sample_f(&self, normal, wo); r and local are the random draws
MaterialSampleF(m, normal, wo, r, local, one) ==
    IF m.material = "Lambert" THEN SampleFLambert(normal, LocalToWorld(normal, local, one), one)
    ELSE IF m.material = "Mirror" THEN SampleFSpecular(Reflect(VNeg(wo), normal, one))
    ELSE IF m.material = "Transparent"
    THEN SampleFTransparent(m, normal, wo, r, Fresnel(VNeg(wo), normal, m.ior, one), one)
    ELSE Panicked

\* bsdf(&self, normal, wo, wi)
MaterialBsdf(m, normal, wo, wi, one) ==
    IF m.material = "Lambert" THEN [status |-> "ok", kind |-> "over_pi"]
    ELSE IF m.material \in {"Mirror", "Transparent"}
    THEN [status |-> "ok", kind |-> "over_cos", cos |-> Abs(IDiv(Dot(normal, wi), one))]
    ELSE Panicked

(***************************************************************************)
(* The random draws, from small sets: cosine_weighted_hemisphere() yields  *)
(* a unit vector of the local upper hemisphere, vector_on_sphere() a unit  *)
(* vector, the camera's jitter one of its rays.                            *)
(***************************************************************************)
HemisphereSamples == {Vec3(0, 0, 1), Vec3(1, 0, 0), Vec3(0, 1, 0)}

SphereSamples == {AxisZ, VNeg(AxisZ)}

CameraDirections == {AxisZ, VNeg(AxisZ)}

\* camera.ray(xy): a ray from the camera position; the pixel and the jitter
\* select the direction
CameraRay(cam, xy, d) == Ray(cam.position, d)

(***************************************************************************)
(* renderer.rs: trace_loop_2                                               *)
(***************************************************************************)
EmitTerm(bounce, idx, throughput) ==
    [kind |-> "emit", bounce |-> bounce, idx |-> idx, throughput |-> throughput]

DirectTerm(bounce, idx, light, throughput, cos_theta) ==
    [kind |-> "direct", bounce |-> bounce, idx |-> idx, light |-> light,
     throughput |-> throughput, cos_theta |-> cos_theta]

BackgroundTerm(bounce, throughput) ==
    [kind |-> "background", bounce |-> bounce, throughput |-> throughput]

TraceStart(incident, max_bounce) ==
    [status |-> "loop", incident |-> incident, max_bounce |-> max_bounce,
     ray |-> incident, bounce |-> 0, radiance |-> <<>>, throughput |-> <<>>,
     iterations |-> 0, log |-> <<>>]

\* a condition without the budget test `bounce < max_bounce - 1`
DirectCondition_NoBudget(light_hit, i, light_normal, shadow_ray, bounce, max_bounce) ==
    /\ light_hit.some
    /\ light_hit.hit.idx = i
    /\ 0 < Dot(light_normal, VNeg(shadow_ray.direction))

\* the condition under which the light loop adds the direct term (lines 164-168)
DirectCondition(light_hit, i, light_normal, shadow_ray, bounce, max_bounce) ==
    /\ light_hit.some
    /\ light_hit.hit.idx = i
    /\ 0 < Dot(light_normal, VNeg(shadow_ray.direction))
    /\ bounce < max_bounce - 1

\* lines 169-184 and the end of the loop body: the term is added or not
LightResult(acc, hit, throughput, bounce, i, light_normal, shadow_ray, light_hit, add) ==
    [radiance |-> IF add
                  THEN Append(acc.radiance,
                              DirectTerm(bounce, hit.idx, i, throughput,
                                         Dot(hit.normal, shadow_ray.direction)))
                  ELSE acc.radiance,
     log |-> Append(acc.log,
                    [bounce |-> bounce, idx |-> hit.idx, light |-> i, sampled |-> TRUE,
                     light_normal |-> light_normal, shadow_ray |-> shadow_ray,
                     light_hit |-> light_hit, added |-> add])]

\* lines 164-168: the shadow ray is cast and the condition evaluated
LightShadow(s, acc, hit, throughput, bounce, max_bounce, i, light_normal, shadow_ray, light_hit) ==
    LightResult(acc, hit, throughput, bounce, i, light_normal, shadow_ray, light_hit,
                DirectCondition(light_hit, i, light_normal, shadow_ray, bounce, max_bounce))

\* lines 156-160: the sampled point on the light
PointOnLight(light, normal) ==
    VAdd(light.geometry.center, VMulS(normal, light.geometry.radius))

\* lines 162-164: the shadow ray towards the sampled point
LightRay(s, acc, hit, point, throughput, bounce, max_bounce, i, light_normal, shadow_ray) ==
    LightShadow(s, acc, hit, throughput, bounce, max_bounce, i, light_normal, shadow_ray,
                SceneHit(s, shadow_ray, MinT, Infinity))

\* lines 152-162: a light other than the object hit is sampled
LightSample(s, acc, hit, point, throughput, bounce, max_bounce, i, light_normal) ==
    LightRay(s, acc, hit, point, throughput, bounce, max_bounce, i, light_normal,
             Ray(point, Normalize(VSub(PointOnLight(ObjectAt(s, i), light_normal), point))))

\* `if hit.idx != i` fails: nothing is done for the light that was hit
LightSkip(acc, hit, bounce, i) ==
    [radiance |-> acc.radiance,
     log |-> Append(acc.log, [bounce |-> bounce, idx |-> hit.idx, light |-> i,
                              sampled |-> FALSE, added |-> FALSE])]

\* the body of `for &i in &scene.lights` for the light at position k of the list
LightStep(s, acc, hit, point, throughput, bounce, max_bounce, k, draw) ==
    IF hit.idx # s.lights[k]
    THEN LightSample(s, acc, hit, point, throughput, bounce, max_bounce,
                     s.lights[k], Normalize(draw))
    ELSE LightSkip(acc, hit, bounce, s.lights[k])

RECURSIVE LightLoop(_, _, _, _, _, _, _, _, _)
LightLoop(s, acc, hit, point, throughput, bounce, max_bounce, k, draws) ==
    IF k > Len(s.lights) THEN acc
    ELSE LightLoop(s,
                   LightStep(s, acc, hit, point, throughput, bounce, max_bounce, k, draws[k]),
                   hit, point, throughput, bounce, max_bounce, k + 1, draws)

\* assert_eq!(scene.lights.len(), 1)
LightsAssertion(s) == Len(s.lights) = 1

\* emission added at every hit, as in trace_loop_1
EmissionStep_EveryBounce(t, hit) ==
    Append(t.radiance, EmitTerm(t.bounce, hit.idx, t.throughput))

\* radiance after `if bounce == 0 { radiance += throughput * emission }`
EmissionStep(t, hit) ==
    IF t.bounce = 0
    THEN Append(t.radiance, EmitTerm(t.bounce, hit.idx, t.throughput))
    ELSE t.radiance

\* lines 140-206 done: the next iteration starts from the bounce ray
TraceContinue(t, point, wi, throughput1, after) ==
    [t EXCEPT !.ray = Ray(point, wi), !.radiance = after.radiance,
              !.throughput = throughput1, !.log = after.log,
              !.bounce = @ + 1, !.iterations = @ + 1]

\* lines 148-206: the assertion on the light list, then the light loop
TraceShade(t, s, hit, point, wi, radiance1, throughput1, draws) ==
    IF ~LightsAssertion(s)
    THEN [t EXCEPT !.status = "panicked", !.ray = Ray(point, wi),
                   !.radiance = radiance1, !.throughput = throughput1,
                   !.iterations = @ + 1]
    ELSE TraceContinue(t, point, wi, throughput1,
                       LightLoop(s, [radiance |-> radiance1, log |-> t.log], hit, point,
                                 throughput1, t.bounce, t.max_bounce, 1, draws))

\* lines 135-146: the shading point, the bounce direction, emission, throughput
TraceOnHit(t, s, hit, local, draws) ==
    TraceShade(t, s, hit, VAdd(hit.point, VMulS(hit.normal, Bias)),
               LocalToWorld(hit.normal, local, Unit), EmissionStep(t, hit),
               Append(t.throughput, hit.idx), draws)

\* a miss that breaks without adding the background
TraceOnMiss_Black(t) == [t EXCEPT !.status = "done", !.iterations = @ + 1]

\* lines 207-210: the ray leaves the scene
TraceOnMiss(t) ==
    [t EXCEPT !.status = "done", !.iterations = @ + 1,
              !.radiance = Append(@, BackgroundTerm(t.bounce, t.throughput))]

TraceBranch(t, s, h, local, draws) ==
    IF h.some THEN TraceOnHit(t, s, h.hit, local, draws) ELSE TraceOnMiss(t)

\* one iteration of `for bounce in 0..max_bounce`, with the draws of that iteration
TraceIteration(t, s, local, draws) ==
    TraceBranch(t, s, SceneHit(s, t.ray, MinT, Infinity), local, draws)

\* the loop is exhausted: `radiance` is returned
TraceReturn(t) == [t EXCEPT !.status = "done"]

\* the successors of a running call, over the draws LS (hemisphere) and LN (sphere)
TraceSuccessors(t, s, LS, LN) ==
    IF t.status # "loop" THEN {}
    ELSE IF t.bounce >= t.max_bounce THEN {TraceReturn(t)}
    ELSE {TraceIteration(t, s, local, draws) :
             local \in LS, draws \in [1..Len(s.lights) -> LN]}

RECURSIVE TraceRun(_, _, _, _)
TraceRun(t, s, LS, LN) ==
    IF t.status # "loop" THEN {t}
    ELSE UNION {TraceRun(u, s, LS, LN) : u \in TraceSuccessors(t, s, LS, LN)}

\* every outcome of trace_loop_2(incident, scene, max_bounce)
TraceLoop2(incident, s, max_bounce, LS, LN) ==
    TraceRun(TraceStart(incident, max_bounce), s, LS, LN)

(***************************************************************************)
(* SpecTrace: one call of trace_loop_2 on a camera ray, one loop iteration *)
(* per step.                                                               *)
(***************************************************************************)
InitTrace ==
    /\ scene \in Scenes
    /\ camera \in Cameras
    /\ samples = 1
    /\ bounces \in 0..MaxBounces
    /\ RenderIdle
    /\ scan = ScanIdle
    /\ call = CallIdle
    /\ \E d \in CameraDirections :
          tr = TraceStart(CameraRay(camera, <<0, 0>>, d), bounces)

\* the iteration outcomes of the running call, over the model's draws
TraceOutcomes == TraceSuccessors(tr, scene, HemisphereSamples, SphereSamples)

\* an iteration whose ray hits an object: the path continues
TraceHit ==
    /\ tr.status = "loop"
    /\ tr.bounce < tr.max_bounce
    /\ \E u \in TraceOutcomes : u.status = "loop" /\ tr' = u
    /\ UNCHANGED <<call, scene, camera, samples, bounces, renderVars, scan>>

\* an iteration whose ray misses: background, break
TraceMiss ==
    /\ tr.status = "loop"
    /\ tr.bounce < tr.max_bounce
    /\ \E u \in TraceOutcomes : u.status = "done" /\ tr' = u
    /\ UNCHANGED <<call, scene, camera, samples, bounces, renderVars, scan>>

\* an iteration in which assert_eq!(scene.lights.len(), 1) fails
TracePanic ==
    /\ tr.status = "loop"
    /\ tr.bounce < tr.max_bounce
    /\ \E u \in TraceOutcomes : u.status = "panicked" /\ tr' = u
    /\ UNCHANGED <<call, scene, camera, samples, bounces, renderVars, scan>>

TraceExit ==
    /\ tr.status = "loop"
    /\ tr.bounce >= tr.max_bounce
    /\ tr' = TraceReturn(tr)
    /\ UNCHANGED <<call, scene, camera, samples, bounces, renderVars, scan>>

NextTrace == TraceHit \/ TraceMiss \/ TracePanic \/ TraceExit

SpecTrace == InitTrace /\ [][NextTrace]_vars

\* a pixel index counted from one
GetXY_OneBased(index, width_) == <<(index + 1) % width_, (index + 1) \div width_>>

\* a pixel index taken column by column
GetXY_Transposed(index, width_) == <<index \div width_, index % width_>>

(***************************************************************************)
(* renderer.rs: render_multithreaded.  Spec: one call of Renderer::render. *)
(***************************************************************************)
GetXY(index, width_) == <<index % width_, index \div width_>>

Min(a, b) == IF a < b THEN a ELSE b

\* slice::chunks_mut(chunk_size) on a slice of len cells: ceil(len / size) slices,
\* all of `size` cells but possibly the last; each is [start, len], start 0-based
ChunksMut(len, size) ==
    [k \in 1..((len + size - 1) \div size) |->
        [start |-> (k - 1) * size, len |-> Min(size, len - (k - 1) * size)]]

\* the draws of a worker's integrator calls
RenderHemisphereSamples == {Vec3(0, 0, 1)}

RenderSphereSamples == {AxisZ}

RenderScenes == {SceneEmpty, SceneLit, SceneNoLights, SceneWall}

Init ==
    /\ scene \in RenderScenes
    /\ camera \in Cameras
    /\ samples \in 0..MaxSamples
    /\ bounces \in 0..MaxRenderBounces
    /\ pc = "start"
    /\ width = 0
    /\ height = 0
    /\ framebuffer = <<>>
    /\ worker_count = 0
    /\ chunk_size = 0
    /\ chunks = <<>>
    /\ spawned = 0
    /\ workers = <<>>
    /\ writers = <<>>
    /\ converted = 0
    /\ scan = ScanIdle
    /\ tr = TrIdle
    /\ call = CallIdle

\* lines 294-297: the zero-initialised framebuffer
Alloc ==
    /\ pc = "start"
    /\ width' = camera.resolution[1]
    /\ height' = camera.resolution[2]
    /\ framebuffer' = [k \in 1..(camera.resolution[1] * camera.resolution[2]) |-> <<>>]
    /\ writers' = [k \in 1..(camera.resolution[1] * camera.resolution[2]) |-> {}]
    /\ pc' = "allocated"
    /\ UNCHANGED <<call, scene, camera, samples, bounces, worker_count, chunk_size, chunks,
                   spawned, workers, converted, scan, tr>>

\* lines 301-302
Partition ==
    /\ pc = "allocated"
    /\ \E n \in 1..MaxParallelism :
          /\ worker_count' = n
          /\ chunk_size' = Len(framebuffer) \div n
    /\ pc' = "partitioned"
    /\ UNCHANGED <<call, scene, camera, samples, bounces, width, height, framebuffer, chunks,
                   spawned, workers, writers, converted, scan, tr>>

\* line 307: chunks_mut panics on a chunk size of 0, inside the scope, before any spawn
ChunksPanic ==
    /\ pc = "partitioned"
    /\ chunk_size = 0
    /\ pc' = "panicked"
    /\ UNCHANGED <<call, scene, camera, samples, bounces, width, height, framebuffer,
                   worker_count, chunk_size, chunks, spawned, workers, writers,
                   converted, scan, tr>>

\* lines 306-307: the scope is entered and the framebuffer split
EnterScope ==
    /\ pc = "partitioned"
    /\ chunk_size # 0
    /\ chunks' = ChunksMut(Len(framebuffer), chunk_size)
    /\ pc' = "scope"
    /\ UNCHANGED <<call, scene, camera, samples, bounces, width, height, framebuffer,
                   worker_count, chunk_size, spawned, workers, writers, converted,
                   scan, tr>>

\* line 308: the worker of the next chunk is spawned and starts to run
Spawn ==
    /\ pc = "scope"
    /\ spawned < Len(chunks)
    /\ workers' = Append(workers,
                         [status |-> "running", worker |-> spawned,
                          chunk |-> chunks[spawned + 1], sample |-> 0, i |-> 0,
                          calls |-> 0, max_iterations |-> 0])
    /\ spawned' = spawned + 1
    /\ UNCHANGED <<call, scene, camera, samples, bounces, pc, width, height, framebuffer,
                   worker_count, chunk_size, chunks, writers, converted, scan, tr>>

Max(a, b) == IF a > b THEN a ELSE b

\* the loop counters after the body of `for i in 0..chunk.len()` has run
Advance(w, out) ==
    [w EXCEPT !.i = IF w.i + 1 < w.chunk.len THEN w.i + 1 ELSE 0,
              !.sample = IF w.i + 1 < w.chunk.len THEN w.sample ELSE w.sample + 1,
              !.calls = @ + 1,
              !.max_iterations = Max(@, out.iterations)]

\* a worker that indexes the whole framebuffer with its local index
CellOf_Unsliced(w) == w.i + 1

\* the framebuffer cell (1-based) behind chunk[i] of worker w
CellOf(w) == w.chunk.start + w.i + 1

\* lines 311-317: one pixel sample of worker k
WorkerTrace(k) ==
    /\ workers[k].status = "running"
    /\ workers[k].sample < samples
    /\ \E d \in CameraDirections :
       \E out \in TraceLoop2(CameraRay(camera,
                                       GetXY(workers[k].worker * chunk_size + workers[k].i, width),
                                       d),
                             scene, bounces, RenderHemisphereSamples, RenderSphereSamples) :
          /\ out.status = "done"
          /\ framebuffer' = [framebuffer EXCEPT ![CellOf(workers[k])] =
                Append(@, [color |-> out.radiance, samples |-> samples,
                           xy |-> GetXY(workers[k].worker * chunk_size + workers[k].i, width)])]
          /\ writers' = [writers EXCEPT ![CellOf(workers[k])] = @ \cup {workers[k].worker}]
          /\ workers' = [workers EXCEPT ![k] = Advance(@, out)]
    /\ UNCHANGED <<call, scene, camera, samples, bounces, pc, width, height, worker_count,
                   chunk_size, chunks, spawned, converted, scan, tr>>

\* line 313 panics (the assertion of trace_loop_2): the worker thread dies
WorkerPanic(k) ==
    /\ workers[k].status = "running"
    /\ workers[k].sample < samples
    /\ \E d \in CameraDirections :
       \E out \in TraceLoop2(CameraRay(camera,
                                       GetXY(workers[k].worker * chunk_size + workers[k].i, width),
                                       d),
                             scene, bounces, RenderHemisphereSamples, RenderSphereSamples) :
          /\ out.status = "panicked"
          /\ workers' = [workers EXCEPT ![k].status = "panicked", ![k].calls = @ + 1,
                                        ![k].max_iterations = Max(@, out.iterations)]
    /\ UNCHANGED <<call, scene, camera, samples, bounces, pc, width, height, framebuffer,
                   worker_count, chunk_size, chunks, spawned, writers, converted, scan, tr>>

\* line 309: `for sample in 0..samples` is exhausted, the closure returns
WorkerDone(k) ==
    /\ workers[k].status = "running"
    /\ workers[k].sample >= samples
    /\ workers' = [workers EXCEPT ![k].status = "done"]
    /\ UNCHANGED <<call, scene, camera, samples, bounces, pc, width, height, framebuffer,
                   worker_count, chunk_size, chunks, spawned, writers, converted, scan, tr>>

\* a scope that does not wait for its threads
AllJoined_NoWait == TRUE

AllJoined == \A k \in 1..Len(workers) : workers[k].status \in {"done", "panicked"}

\* a join that drops the threads' results
SomePanicked_Ignored == FALSE

SomePanicked == \E k \in 1..Len(workers) : workers[k].status = "panicked"

\* line 325: thread::scope returns once every spawned thread has been joined
JoinOk ==
    /\ pc = "scope"
    /\ spawned = Len(chunks)
    /\ AllJoined
    /\ ~SomePanicked
    /\ pc' = "joined"
    /\ UNCHANGED <<call, scene, camera, samples, bounces, width, height, framebuffer,
                   worker_count, chunk_size, chunks, spawned, workers, writers,
                   converted, scan, tr>>

\* line 325: thread::scope panics, after joining every thread, if one of them panicked
JoinPanic ==
    /\ pc = "scope"
    /\ spawned = Len(chunks)
    /\ AllJoined
    /\ SomePanicked
    /\ pc' = "panicked"
    /\ UNCHANGED <<call, scene, camera, samples, bounces, width, height, framebuffer,
                   worker_count, chunk_size, chunks, spawned, workers, writers,
                   converted, scan, tr>>

\* line 327: to_image consumes the framebuffer; render returns the image
ToImage ==
    /\ pc = "joined"
    /\ converted' = converted + 1
    /\ pc' = "returned"
    /\ UNCHANGED <<call, scene, camera, samples, bounces, width, height, framebuffer,
                   worker_count, chunk_size, chunks, spawned, workers, writers, scan, tr>>

WorkerTraceSome == \E k \in 1..Len(workers) : WorkerTrace(k)

WorkerPanicSome == \E k \in 1..Len(workers) : WorkerPanic(k)

WorkerDoneSome == \E k \in 1..Len(workers) : WorkerDone(k)

Next ==
    \/ Alloc
    \/ Partition
    \/ ChunksPanic
    \/ EnterScope
    \/ Spawn
    \/ WorkerTraceSome
    \/ WorkerPanicSome
    \/ WorkerDoneSome
    \/ JoinOk
    \/ JoinPanic
    \/ ToImage

Spec == Init /\ [][Next]_vars

(***************************************************************************)
(* SpecOnb: one call Onb::new(w) on a unit vector w, then one call of      *)
(* transform(a) on the basis it returned.                                  *)
(***************************************************************************)
\* the components of the integer vectors of length Fx
FxComponents == {0, 7, 9, 12, 15, 16, 20, 24, 25} \cup {-7, -9, -12, -15, -16, -20, -24, -25}

\* the unit vectors of scale Fx
UnitVectors == {v \in FxComponents \X FxComponents \X FxComponents : Dot(v, v) = Fx * Fx}

\* c = cross(w, a) has an integer length, and normalize(c) and cross(w, front)
\* have integer components at scale Fx
ExactFront(w, c, len) ==
    /\ len * len = Dot(c, c)
    /\ len > 0
    /\ \A i \in 1..3 : (c[i] * Fx) % len = 0
    /\ \A i \in 1..3 : Cross(w, NormalizeTo(c, Fx))[i] % Fx = 0

ExactCross(w, c) == ExactFront(w, c, Length(c))

\* the unit vectors on which Onb::new computes without rounding
OnbArguments == {w \in UnitVectors : ExactCross(w, Cross(w, HelperAxis(w, Fx)))}

\* the local vectors handed to transform
OnbLocals == {Vec3(0, 0, Fx), Vec3(Fx, 0, 0), Vec3(0, Fx, 0), Vec3(15, 0, 20)}

InitOnb ==
    /\ scene = SceneEmpty
    /\ camera \in {c \in Cameras : c.resolution = <<1, 1>>}
    /\ samples = 0
    /\ bounces = 0
    /\ RenderIdle
    /\ scan = ScanIdle
    /\ tr = TrIdle
    /\ \E w \in OnbArguments, a \in OnbLocals :
          call = [status |-> "args", fn |-> "Onb::new", w |-> w, a |-> a]

\* Onb::new(w)
OnbNewCall ==
    /\ call.status = "args"
    /\ call.fn = "Onb::new"
    /\ call' = [status |-> "built", fn |-> "Onb::new", w |-> call.w, a |-> call.a,
                helper |-> HelperAxis(call.w, Fx), onb |-> OnbNew(call.w, Fx)]
    /\ UNCHANGED <<scene, camera, samples, bounces, renderVars, scan, tr>>

\* onb.transform(a)
OnbTransformCall ==
    /\ call.status = "built"
    /\ call.fn = "Onb::new"
    /\ call' = [call EXCEPT !.status = "done"] @@
                [world |-> OnbTransform(call.onb, call.a, Fx)]
    /\ UNCHANGED <<scene, camera, samples, bounces, renderVars, scan, tr>>

NextOnb == OnbNewCall \/ OnbTransformCall

SpecOnb == InitOnb /\ [][NextOnb]_vars

(***************************************************************************)
(* SpecSphere: one call Sphere::hit(ray, min_t, max_t), the direction of   *)
(* the ray and the normal of the hit at scale Fx.                          *)
(***************************************************************************)
SphereSpheres ==
    {Sphere(Vec3(0, 0, 5), 1), Sphere(Vec3(0, 0, 0), 3), Sphere(Vec3(0, 0, 0), 25)}

SphereOrigins ==
    {Vec3(0, 0, 0), Vec3(0, 0, 4), Vec3(0, 0, -50), Vec3(0, 0, 50), Vec3(15, 0, -50),
     Vec3(-30, 0, -40), Vec3(0, 0, -25), Vec3(25, 0, -50), Vec3(40, 0, 0)}

SphereDirections ==
    {Vec3(0, 0, Fx), Vec3(0, 0, -Fx), Vec3(Fx, 0, 0), Vec3(15, 0, 20), Vec3(-15, 0, -20)}

SphereMinT == {0, MinT}

SphereMaxT == {Infinity, 30}

\* the hit point and the normal at distance t have integer components
ExactPoint(s, ray, t) ==
    /\ \A i \in 1..3 : (ray.direction[i] * t) % Fx = 0
    /\ \A i \in 1..3 : (VSub(PointAtTo(ray, t, Fx), s.center)[i] * Fx) % s.radius = 0

\* the discriminant is negative or a square
ExactRoots(s, ray, b, c) ==
    \/ b * b - c < 0
    \/ /\ Sqrt(b * b - c) * Sqrt(b * b - c) = b * b - c
       /\ ExactPoint(s, ray, SelectRoot(b, Sqrt(b * b - c)))

\* the calls on which Sphere::hit computes without rounding
ExactSphere(s, ray, m) ==
    /\ Dot(m, ray.direction) % Fx = 0
    /\ ExactRoots(s, ray, IDiv(Dot(m, ray.direction), Fx), Dot(m, m) - s.radius * s.radius)

SphereArguments ==
    {a \in [sphere : SphereSpheres, ray : [origin : SphereOrigins, direction : SphereDirections],
            min_t : SphereMinT, max_t : SphereMaxT] :
        ExactSphere(a.sphere, a.ray, VSub(a.ray.origin, a.sphere.center))}

InitSphere ==
    /\ scene = SceneEmpty
    /\ camera \in {c \in Cameras : c.resolution = <<1, 1>>}
    /\ samples = 0
    /\ bounces = 0
    /\ RenderIdle
    /\ scan = ScanIdle
    /\ tr = TrIdle
    /\ \E a \in SphereArguments :
          call = [status |-> "args", fn |-> "Sphere::hit", sphere |-> a.sphere,
                  ray |-> a.ray, min_t |-> a.min_t, max_t |-> a.max_t]

\* sphere.hit(ray, min_t, max_t)
SphereHitCall ==
    /\ call.status = "args"
    /\ call.fn = "Sphere::hit"
    /\ call' = [call EXCEPT !.status = "done"] @@
                [result |-> SphereHit(call.sphere, call.ray, call.min_t, call.max_t, Fx)]
    /\ UNCHANGED <<scene, camera, samples, bounces, renderVars, scan, tr>>

NextSphere == SphereHitCall

SpecSphere == InitSphere /\ [][NextSphere]_vars

(***************************************************************************)
(* SpecMaterial: one call material.sample(normal, wo) with the random      *)
(* draws r (Transparent) and local (the hemisphere samplers), on unit      *)
(* vectors of scale Fx.                                                    *)
(***************************************************************************)
MaterialIors == {Ratio(1, 1), Ratio(4, 3), Ratio(3, 4), Ratio(3, 2)}

Materials == [material : MaterialTypes, ior : MaterialIors]

MaterialNormals == {Vec3(0, 0, Fx), Vec3(0, Fx, 0), Vec3(15, 0, 20)}

MaterialDirections == {v \in UnitVectors : v[2] = 0} \cup {Vec3(0, Fx, 0), Vec3(0, -Fx, 0)}

\* rng.gen_range(0.0..1.0)
MaterialDraws == {Ratio(0, 1), Ratio(1, 2), Ratio(99, 100)}

IsSquare(n) == n >= 0 /\ Sqrt(n) * Sqrt(n) = n

ExactReflect(incident, normal) ==
    \A i \in 1..3 : (normal[i] * 2 * Dot(incident, normal)) % (Fx * Fx) = 0

ExactRefractK(incident, n, eta, cosi, kk) ==
    \/ kk < 0
    \/ /\ IsSquare(kk)
       /\ \A i \in 1..3 : (incident[i] * eta[1] * Fx + n[i] * (eta[1] * cosi - Sqrt(kk)))
                              % (eta[2] * Fx) = 0

ExactRefract(incident, normal, ior, cosi) ==
    IF cosi < 0
    THEN ExactRefractK(incident, normal, <<ior[2], ior[1]>>, -cosi,
                       RefractK(<<ior[2], ior[1]>>, -cosi, Fx))
    ELSE ExactRefractK(incident, VNeg(normal), ior, cosi, RefractK(ior, cosi, Fx))

ExactFresnel(ior, cosi) ==
    /\ IsSquare(Fx * Fx - cosi * cosi)
    /\ \/ ior[2] * Sqrt(Fx * Fx - cosi * cosi) >= ior[1] * Fx
       \/ IsSquare(ior[1] * ior[1] * Fx * Fx
                     - ior[2] * ior[2] * (Fx * Fx - cosi * cosi))

ExactTransparent(m, normal, wo) ==
    /\ Dot(wo, normal) % Fx = 0
    /\ ExactReflect(VNeg(wo), normal)
    /\ ExactFresnel(m.ior, IDiv(Dot(VNeg(wo), normal), Fx))
    /\ ExactRefract(VNeg(wo), normal, m.ior, IDiv(Dot(VNeg(wo), normal), Fx))

ExactHemisphere(normal, local) ==
    /\ ExactCross(normal, Cross(normal, HelperAxis(normal, Fx)))
    /\ \A i \in 1..3 : (OnbRight(OnbNew(normal, Fx))[i] * local[1]
                          + OnbFront(OnbNew(normal, Fx))[i] * local[2]
                          + OnbUp(OnbNew(normal, Fx))[i] * local[3]) % Fx = 0
    /\ Dot(normal, LocalToWorld(normal, local, Fx)) % Fx = 0

\* the calls on which sample computes without rounding; a draw or a parameter
\* that the material type does not read takes one value only
ExactSample(m, normal, wo, r, local) ==
    IF m.material = "Mirror"
    THEN m.ior = RatOne /\ r = Ratio(0, 1) /\ local = Vec3(0, 0, Fx) /\ ExactReflect(VNeg(wo), normal)
    ELSE IF m.material = "Transparent"
    THEN local = Vec3(0, 0, Fx) /\ ExactTransparent(m, normal, wo)
    ELSE /\ m.ior = RatOne /\ r = Ratio(0, 1)
         /\ wo \in {Vec3(0, 0, Fx), Vec3(15, 0, 20), Vec3(Fx, 0, 0), Vec3(0, 0, -Fx)}
         /\ ExactHemisphere(normal, local)

MaterialArguments ==
    {a \in [material : Materials, normal : MaterialNormals, wo : MaterialDirections,
            r : MaterialDraws, local : OnbLocals] :
        ExactSample(a.material, a.normal, a.wo, a.r, a.local)}

InitMaterial ==
    /\ scene = SceneEmpty
    /\ camera \in {c \in Cameras : c.resolution = <<1, 1>>}
    /\ samples = 0
    /\ bounces = 0
    /\ RenderIdle
    /\ scan = ScanIdle
    /\ tr = TrIdle
    /\ \E a \in MaterialArguments :
          call = [status |-> "args", fn |-> "Material::sample", material |-> a.material,
                  normal |-> a.normal, wo |-> a.wo, r |-> a.r, local |-> a.local]

\* material.sample(normal, wo)
MaterialSampleCall ==
    /\ call.status = "args"
    /\ call.fn = "Material::sample"
    /\ call' = [call EXCEPT !.status = "done"] @@
                [result |-> MaterialSample(call.material, call.normal, call.wo, call.r,
                                           call.local, Fx)]
    /\ UNCHANGED <<scene, camera, samples, bounces, renderVars, scan, tr>>

NextMaterial == MaterialSampleCall

SpecMaterial == InitMaterial /\ [][NextMaterial]_vars

(***************************************************************************)
(* SpecPrimitive: one call of the intersection test of a primitive,        *)
(* Sphere::hit, Triangle::hit or Mesh::hit.                                *)
(***************************************************************************)
PrimitiveTriangles == {TriangleAt(4), TriangleAt(16), TriangleAt(18), TriangleAside(16)}

PrimitiveMeshes ==
    {Mesh(<<>>), Mesh(<<TriangleAt(4)>>), Mesh(<<TriangleAt(16), TriangleAt(18)>>),
     Mesh(<<TriangleAside(16), TriangleAt(18), TriangleAt(16)>>),
     Mesh(<<TriangleAside(16)>>)}

PrimitiveRays == {Ray(o, d) : o \in ScanOrigins \cup {Vec3(0, 0, 17)}, d \in ScanDirections}

PrimitiveCall(fn, ray, min_t, max_t) ==
    [status |-> "args", fn |-> fn, ray |-> ray, min_t |-> min_t, max_t |-> max_t]

InitPrimitive ==
    /\ scene = SceneEmpty
    /\ camera \in {c \in Cameras : c.resolution = <<1, 1>>}
    /\ samples = 0
    /\ bounces = 0
    /\ RenderIdle
    /\ scan = ScanIdle
    /\ tr = TrIdle
    /\ \/ \E a \in SphereArguments :
             call = [status |-> "args", fn |-> "Sphere::hit", sphere |-> a.sphere,
                     ray |-> a.ray, min_t |-> a.min_t, max_t |-> a.max_t]
       \/ \E t \in PrimitiveTriangles, ray \in PrimitiveRays, lo \in ScanMinT, hi \in ScanMaxT :
             call = PrimitiveCall("Triangle::hit", ray, lo, hi) @@ [triangle |-> t]
       \/ \E m \in PrimitiveMeshes, ray \in PrimitiveRays, lo \in ScanMinT, hi \in ScanMaxT :
             call = PrimitiveCall("Mesh::hit", ray, lo, hi) @@ [mesh |-> m]

\* triangle.hit(ray, min_t, max_t)
TriangleHitCall ==
    /\ call.status = "args"
    /\ call.fn = "Triangle::hit"
    /\ call' = [call EXCEPT !.status = "done"] @@
                [result |-> TriangleHit(call.triangle, call.ray, call.min_t, call.max_t)]
    /\ UNCHANGED <<scene, camera, samples, bounces, renderVars, scan, tr>>

\* mesh.hit(ray, min_t, max_t)
MeshHitCall ==
    /\ call.status = "args"
    /\ call.fn = "Mesh::hit"
    /\ call' = [call EXCEPT !.status = "done"] @@
                [result |-> MeshHit(call.mesh, call.ray, call.min_t, call.max_t)]
    /\ UNCHANGED <<scene, camera, samples, bounces, renderVars, scan, tr>>

NextPrimitive == SphereHitCall \/ TriangleHitCall \/ MeshHitCall

SpecPrimitive == InitPrimitive /\ [][NextPrimitive]_vars

(***************************************************************************)
(* SpecRecursive: one call Renderer::trace(ray, scene, bounces) of the     *)
(* recursive integrator, one nested call per step.  `nested` counts the    *)
(* calls of trace that are on the stack below the running one.             *)
(***************************************************************************)
\* f64::signum: 1.0 for +0.0 and every positive number
Signum(a) == IF a < 0 THEN -1 ELSE 1

\* lines 117-118: the reflected ray, offset along the normal
BounceRay(hit, wi) ==
    Ray(VAdd(hit.point, VMulS(hit.normal, Signum(Dot(wi, hit.normal)) * Bias)), wi)

\* line 119: Self::trace(&ray, scene, depth + 1)
NestedCall(c, hit, sample) ==
    [c EXCEPT !.ray = BounceRay(hit, sample.wi), !.depth = c.depth + 1,
              !.nested = c.nested + 1, !.weights = Append(@, sample.weight)]

\* lines 110-119: naive_path_tracing at `hit`, over the draws of material.sample
NaivePathTracing(c, s, hit) ==
    {NestedCall(c, hit, MaterialSample(ObjectAt(s, hit.idx).material, hit.normal,
                                       VNeg(c.ray.direction), r, local, Unit)) :
        r \in MaterialDraws, local \in HemisphereSamples}

InitRecursive ==
    /\ scene \in Scenes
    /\ camera \in {c \in Cameras : c.resolution = <<1, 1>>}
    /\ samples = 1
    /\ bounces \in 0..MaxBounces
    /\ RenderIdle
    /\ scan = ScanIdle
    /\ tr = TrIdle
    /\ \E d \in CameraDirections :
          call = [status |-> "running", fn |-> "Renderer::trace",
                  ray |-> CameraRay(camera, <<0, 0>>, d), depth |-> bounces,
                  nested |-> 0, weights |-> <<>>, leaf |-> "none"]

\* lines 253-255: depth > 0 and the ray hits; naive_path_tracing recurses
RecurseHit ==
    /\ call.status = "running"
    /\ call.fn = "Renderer::trace"
    /\ call.depth > 0
    /\ call.nested < MaxStack
    /\ SceneHit(scene, call.ray, MinT, Infinity).some
    /\ call' \in NaivePathTracing(call, scene, SceneHit(scene, call.ray, MinT, Infinity).hit)
    /\ UNCHANGED <<scene, camera, samples, bounces, renderVars, scan, tr>>

\* the stack is exhausted by the next nested call: the process aborts
RecurseOverflow ==
    /\ call.status = "running"
    /\ call.fn = "Renderer::trace"
    /\ call.depth > 0
    /\ call.nested >= MaxStack
    /\ SceneHit(scene, call.ray, MinT, Infinity).some
    /\ call' = [call EXCEPT !.status = "overflow"]
    /\ UNCHANGED <<scene, camera, samples, bounces, renderVars, scan, tr>>

\* lines 256-258: depth > 0 and the ray misses; the calls below return in turn
RecurseMiss ==
    /\ call.status = "running"
    /\ call.fn = "Renderer::trace"
    /\ call.depth > 0
    /\ ~SceneHit(scene, call.ray, MinT, Infinity).some
    /\ call' = [call EXCEPT !.status = "done", !.leaf = "background"]
    /\ UNCHANGED <<scene, camera, samples, bounces, renderVars, scan, tr>>

\* lines 259-261: depth = 0, black
RecurseBlack ==
    /\ call.status = "running"
    /\ call.fn = "Renderer::trace"
    /\ call.depth = 0
    /\ call' = [call EXCEPT !.status = "done", !.leaf = "black"]
    /\ UNCHANGED <<scene, camera, samples, bounces, renderVars, scan, tr>>

NextRecursive == RecurseHit \/ RecurseOverflow \/ RecurseMiss \/ RecurseBlack

SpecRecursive == InitRecursive /\ [][NextRecursive]_vars

(***************************************************************************)
(* SpecBsdf: one call material.sample_f(normal, wo) or                     *)
(* material.bsdf(normal, wo, wi), on the arguments of SpecMaterial.        *)
(***************************************************************************)
InitBsdf ==
    /\ scene = SceneEmpty
    /\ camera \in {c \in Cameras : c.resolution = <<1, 1>>}
    /\ samples = 0
    /\ bounces = 0
    /\ RenderIdle
    /\ scan = ScanIdle
    /\ tr = TrIdle
    /\ \E a \in MaterialArguments :
          \/ call = [status |-> "args", fn |-> "Material::sample_f", material |-> a.material,
                     normal |-> a.normal, wo |-> a.wo, r |-> a.r, local |-> a.local]
          \/ call = [status |-> "args", fn |-> "Material::bsdf", material |-> a.material,
                     normal |-> a.normal, wo |-> a.wo, r |-> a.r, local |-> a.local,
                     wi |-> MaterialSample(a.material, a.normal, a.wo, a.r, a.local, Fx).wi]

\* material.sample_f(normal, wo) returns
SampleFCall ==
    /\ call.status = "args"
    /\ call.fn = "Material::sample_f"
    /\ MaterialSampleF(call.material, call.normal, call.wo, call.r, call.local, Fx).status = "ok"
    /\ call' = [call EXCEPT !.status = "done"] @@
                [result |-> MaterialSampleF(call.material, call.normal, call.wo, call.r,
                                            call.local, Fx)]
    /\ UNCHANGED <<scene, camera, samples, bounces, renderVars, scan, tr>>

\* line 106: panic!("not implemented")
SampleFPanic ==
    /\ call.status = "args"
    /\ call.fn = "Material::sample_f"
    /\ MaterialSampleF(call.material, call.normal, call.wo, call.r, call.local, Fx) = Panicked
    /\ call' = [call EXCEPT !.status = "panicked"]
    /\ UNCHANGED <<scene, camera, samples, bounces, renderVars, scan, tr>>

\* material.bsdf(normal, wo, wi) returns
BsdfCall ==
    /\ call.status = "args"
    /\ call.fn = "Material::bsdf"
    /\ MaterialBsdf(call.material, call.normal, call.wo, call.wi, Fx).status = "ok"
    /\ call' = [call EXCEPT !.status = "done"] @@
                [result |-> MaterialBsdf(call.material, call.normal, call.wo, call.wi, Fx)]
    /\ UNCHANGED <<scene, camera, samples, bounces, renderVars, scan, tr>>

\* line 121: panic!("not implemented")
BsdfPanic ==
    /\ call.status = "args"
    /\ call.fn = "Material::bsdf"
    /\ MaterialBsdf(call.material, call.normal, call.wo, call.wi, Fx) = Panicked
    /\ call' = [call EXCEPT !.status = "panicked"]
    /\ UNCHANGED <<scene, camera, samples, bounces, renderVars, scan, tr>>

NextBsdf == SampleFCall \/ SampleFPanic \/ BsdfCall \/ BsdfPanic

SpecBsdf == InitBsdf /\ [][NextBsdf]_vars

(***************************************************************************)
(* SpecScene: the construction of a scene, by Scene::new or by serde from  *)
(* a scene file, followed by calls of Scene::add.                          *)
(***************************************************************************)
SceneBackgrounds == {"background", "sky"}

SceneObjects == {LightSphere, Ball, FarLight, Wall}

\* scenes as serde builds them from a file: the three fields are given
SceneFiles == {SceneLit, SceneTwoLights}

InitScene ==
    /\ camera \in {c \in Cameras : c.resolution = <<1, 1>>}
    /\ samples = 0
    /\ bounces = 0
    /\ RenderIdle
    /\ scan = ScanIdle
    /\ tr = TrIdle
    /\ \/ \E b \in SceneBackgrounds :
             /\ scene = SceneNew(b)
             /\ call = [status |-> "done", fn |-> "Scene::new", adds |-> 0]
       \/ /\ scene \in SceneFiles
          /\ call = [status |-> "done", fn |-> "serde", adds |-> 0]

\* lines 180-182: scene.add(object)
SceneAddCall ==
    /\ call.adds < MaxObjects
    /\ \E object \in SceneObjects :
          /\ scene' = SceneAdd(scene, object)
          /\ call' = [status |-> "done", fn |-> "Scene::add", adds |-> call.adds + 1,
                      object |-> object]
    /\ UNCHANGED <<camera, samples, bounces, renderVars, scan, tr>>

NextScene == SceneAddCall

SpecScene == InitScene /\ [][NextScene]_vars

(***************************************************************************)
(* Properties of the renderer (Spec).                                      *)
(***************************************************************************)
\* the chunks that contain the 1-based framebuffer cell c
ChunksOf(c) ==
    {k \in 1..Len(chunks) : chunks[k].start < c /\ c <= chunks[k].start + chunks[k].len}

\* chunks_mut panicked: the scope was left before the framebuffer was split
PartitionFailed == pc = "panicked" /\ chunks = <<>>

Partitioned == pc \in {"scope", "joined", "returned"} \/ (pc = "panicked" /\ chunks # <<>>)

\* C1: for every framebuffer size >= 1 and every worker count, the partitioning
\* does not fail and the chunks cover every framebuffer cell exactly once.
C1_Claim ==
    /\ ~PartitionFailed
    /\ Partitioned => \A c \in 1..Len(framebuffer) : Cardinality(ChunksOf(c)) = 1

\* C2: no framebuffer cell is ever written by two workers, a worker writes only
\* cells of the chunk it was spawned with, and scene and camera are never written.
C2_ExclusiveCells ==
    /\ [](\A c \in 1..Len(writers) :
            /\ Cardinality(writers[c]) <= 1
            /\ \A w \in writers[c] : ChunksOf(c) = {w + 1})
    /\ [][scene' = scene /\ camera' = camera]_vars

\* two workers have each written a cell of their own
C2_Witness ==
    \E c \in 1..Len(writers), e \in 1..Len(writers) :
        c # e /\ writers[c] = {0} /\ writers[e] = {1}

\* every spawned worker has run all of its samples
WorkersFinished ==
    /\ spawned = Len(chunks)
    /\ Len(workers) = Len(chunks)
    /\ \A k \in 1..Len(workers) :
          /\ workers[k].status = "done"
          /\ workers[k].calls = samples * workers[k].chunk.len

\* C3: to_image runs, and render returns, only after every spawned worker has
\* finished all of its samples; no cell is written once the conversion has run;
\* the framebuffer is converted exactly once.
C3_ConvertAfterJoin ==
    /\ [](/\ converted <= 1
          /\ converted >= 1 => WorkersFinished
          /\ pc = "returned" => converted = 1 /\ WorkersFinished)
    /\ [][converted >= 1 => framebuffer' = framebuffer]_vars

\* a render of at least two workers and one sample has returned
C3_Witness == pc = "returned" /\ Len(workers) >= 2 /\ samples >= 1

\* C4: if a worker panics, render returns no image; the panic is propagated, and
\* only once every worker has completed or panicked.
C4_PanicPropagates ==
    LET panicked == \E k \in 1..Len(workers) : workers[k].status = "panicked"
    IN  /\ panicked => pc # "returned" /\ pc # "joined" /\ converted = 0
        /\ (panicked /\ pc = "panicked") =>
              /\ spawned = Len(chunks)
              /\ Len(workers) = Len(chunks)
              /\ \A k \in 1..Len(workers) : workers[k].status \in {"done", "panicked"}

\* the panic of one worker has been propagated after another worker completed
C4_Witness ==
    /\ pc = "panicked"
    /\ \E k \in 1..Len(workers), j \in 1..Len(workers) :
          /\ workers[k].status = "panicked"
          /\ workers[j].status = "done"
          /\ workers[j].calls > 0

(***************************************************************************)
(* Properties of Scene::hit (SpecHit).                                     *)
(***************************************************************************)
\* the <<t, index>> of every intersection of the scene inside (min_t, max_t)
InRange(s, ray, min_t, max_t) ==
    {<<t, i>> \in UNION {Intersections(ObjectAt(s, j).geometry, ray) \X {j} :
                            j \in 0..(Len(s.objects) - 1)} :
        min_t < t /\ t < max_t}

\* C5: Scene::hit returns Some exactly when an object has an intersection with
\* min_t < t < max_t; then hit.t is the minimum such t and hit.idx an object
\* attaining it; during the scan the running best distance never increases.
C5_Claim ==
    /\ [](scan.status = "done" =>
            LET cand == InRange(scene, scan.ray, scan.min_t, scan.max_t)
            IN  /\ scan.result.some <=> cand # {}
                /\ scan.result.some =>
                      /\ <<scan.result.hit.t, scan.result.hit.idx>> \in cand
                      /\ \A c \in cand : scan.result.hit.t <= c[1])
    /\ [][scan.status = "loop" /\ scan'.status = "loop" =>
             scan'.closest.t <= scan.closest.t]_vars

(***************************************************************************)
(* Properties of trace_loop_2 (SpecTrace).                                 *)
(***************************************************************************)
\* the closest hit of the camera ray the running call was given
PrimaryHit == SceneHit(scene, tr.incident, MinT, Infinity)

\* C6 as claimed: in a scene without objects the integrator returns exactly the
\* unattenuated background, for every camera ray and every bounce budget, 0 included.
C6_Claim ==
    (tr.status = "done" /\ scene.objects = <<>>) =>
        tr.radiance = <<BackgroundTerm(0, <<>>)>>

\* C6 as amended: in a scene without objects the integrator returns exactly the
\* unattenuated background for every camera ray and every bounce budget of at
\* least 1; with a bounce budget of 0 it returns black.
C6_BackgroundFromOne ==
    (tr.status = "done" /\ scene.objects = <<>>) =>
        /\ tr.max_bounce >= 1 => tr.radiance = <<BackgroundTerm(0, <<>>)>>
        /\ tr.max_bounce = 0 => tr.radiance = <<>>

\* a call with a budget above 1 has returned from the empty scene
C6_Witness ==
    tr.status = "done" /\ scene.objects = <<>> /\ tr.max_bounce >= 2 /\ tr.iterations = 1

Lit(e) ==
    /\ e.sampled
    /\ e.light_hit.some
    /\ e.light_hit.hit.idx = e.light
    /\ 0 < Dot(e.light_normal, VNeg(e.shadow_ray.direction))

C9_EmissionOnlyAtFirstHit ==
    /\ \A j \in 1..Len(tr.radiance) :
          /\ tr.radiance[j].kind = "emit" =>
                /\ tr.radiance[j].bounce = 0
                /\ tr.radiance[j].throughput = <<>>
                /\ tr.radiance[j].idx = tr.throughput[1]
          /\ tr.radiance[j].bounce > 0 => tr.radiance[j].kind \in {"direct", "background"}
    /\ Cardinality({j \in 1..Len(tr.radiance) : tr.radiance[j].kind = "emit"}) <= 1

\* a bounce ray has landed on an emitter
C9_Witness ==
    /\ tr.status \in {"loop", "done"}
    /\ tr.bounce >= 2
    /\ ObjectAt(scene, tr.throughput[2]).material.emittance > 0

\* the radiance holds a direct term of the light added at the vertex of that bounce
DirectAdded(bounce, light) ==
    \E j \in 1..Len(tr.radiance) :
        /\ tr.radiance[j].kind = "direct"
        /\ tr.radiance[j].bounce = bounce
        /\ tr.radiance[j].light = light

\* the log holds an entry for the light at position k at the vertex of that bounce
Logged(bounce, k) ==
    \E j \in 1..Len(tr.log) :
        tr.log[j].bounce = bounce /\ tr.log[j].light = scene.lights[k]

\* C10: at every hit vertex and for every light other than the object
\* hit, the direct term is added exactly when the shadow ray reaches the light on
\* its facing side; nothing is added for the light that was hit.
C10_Claim ==
    /\ \A b \in 0..(Len(tr.throughput) - 1), k \in 1..Len(scene.lights) : Logged(b, k)
    /\ \A j \in 1..Len(tr.log) :
          IF tr.log[j].light # tr.log[j].idx
          THEN DirectAdded(tr.log[j].bounce, tr.log[j].light) <=> Lit(tr.log[j])
          ELSE ~DirectAdded(tr.log[j].bounce, tr.log[j].light)

(***************************************************************************)
(* Termination and cost of a render (Spec).                                *)
(***************************************************************************)
\* C8: every call of render returns; each worker performs exactly
\* samples x chunk-length integrator calls, each of at most max_bounce iterations.
C8_Claim ==
    /\ pc # "panicked"
    /\ \A k \in 1..Len(workers) :
          /\ workers[k].status # "panicked"
          /\ workers[k].status = "done" =>
                workers[k].calls = samples * workers[k].chunk.len
          /\ workers[k].max_iterations <= bounces

\* the sample of the material at `hit` is the one the step of the integrator used:
\* its direction is the direction of the next ray and its weight is the factor
\* material.albedo by which the step multiplied the throughput
SampleUsed(hit, sample) ==
    /\ tr'.ray.direction = sample.wi
    /\ tr'.throughput = Append(tr.throughput, hit.idx)
    /\ sample.weight = Weight("albedo", RatOne)

SampleExists(hit) ==
    \E r \in MaterialDraws, local \in HemisphereSamples :
        SampleUsed(hit, MaterialSample(ObjectAt(scene, hit.idx).material, hit.normal,
                                       VNeg(tr.ray.direction), r, local, Unit))

\* C11: at every hit, whatever the type of the material, the direction in which
\* the integrator continues and the factor it multiplies into the throughput are
\* the direction and the weight that material.sample(hit.normal, -ray.direction)
\* returns for some draw.
C11_Claim ==
    [][(tr.status = "loop" /\ tr'.status = "loop" /\ tr'.bounce = tr.bounce + 1) =>
          SampleExists(SceneHit(scene, tr.ray, MinT, Infinity).hit)]_vars

\* C24: the direct-lighting term of path vertex k is multiplied by the weights of
\* the vertices 0..k-1 only: the albedo of the surface at vertex k enters the
\* term once, through its BSDF value, and not again through the throughput.
C24_Claim ==
    \A j \in 1..Len(tr.radiance) :
        tr.radiance[j].kind = "direct" =>
            tr.radiance[j].throughput = SubSeq(tr.throughput, 1, tr.radiance[j].bounce)

\* C18: the framebuffer is split into exactly as many chunks as there are
\* hardware threads, and one worker is spawned per chunk, for every size.
C18_Claim ==
    Partitioned =>
        /\ Len(chunks) = worker_count
        /\ spawned = Len(chunks) => Len(workers) = worker_count

\* the radiances trace_loop_2 can return for the pixel xy
PixelRadiances(xy) ==
    {out.radiance : out \in UNION {TraceLoop2(CameraRay(camera, xy, d), scene, bounces,
                                              RenderHemisphereSamples, RenderSphereSamples) :
                                   d \in CameraDirections}}

\* the scope was entered and every worker it spawned has run all of its samples
AllWorkersFinished == pc \in {"scope", "joined", "returned"} /\ WorkersFinished

\* C19: once all workers have finished, every framebuffer cell has been added to
\* exactly `samples` times starting from zero, each addition a radiance traced for
\* that cell's own pixel divided by `samples`.
C19_Accumulated ==
    AllWorkersFinished =>
        \A c \in 1..Len(framebuffer) :
            /\ Len(framebuffer[c]) = samples
            /\ \A j \in 1..Len(framebuffer[c]) :
                  /\ framebuffer[c][j].xy = <<(c - 1) % width, (c - 1) \div width>>
                  /\ framebuffer[c][j].samples = samples
                  /\ framebuffer[c][j].color \in PixelRadiances(framebuffer[c][j].xy)

\* two workers have finished a render of a framebuffer of more than one row
C19_Witness ==
    /\ AllWorkersFinished
    /\ samples = MaxSamples
    /\ Len(workers) >= 2
    /\ height >= 2
    /\ \A c \in 1..Len(framebuffer) : Len(framebuffer[c]) = MaxSamples

\* the index a running worker passes to get_xy for its next cell
IndexOf(w) == w.worker * chunk_size + w.i

OnbBuilt == call.status \in {"built", "done"} /\ call.fn = "Onb::new"

\* C15: for a unit vector w the axes of Onb::new(w) are pairwise orthogonal and
\* of unit length, up is w, and transform of the local (0,0,1) returns exactly w.
C15_Orthonormal ==
    /\ OnbBuilt =>
          /\ Dot(OnbRight(call.onb), OnbFront(call.onb)) = 0
          /\ Dot(OnbRight(call.onb), OnbUp(call.onb)) = 0
          /\ Dot(OnbFront(call.onb), OnbUp(call.onb)) = 0
          /\ Dot(OnbRight(call.onb), OnbRight(call.onb)) = Fx * Fx
          /\ Dot(OnbFront(call.onb), OnbFront(call.onb)) = Fx * Fx
          /\ Dot(OnbUp(call.onb), OnbUp(call.onb)) = Fx * Fx
          /\ OnbUp(call.onb) = call.w
    /\ (OnbBuilt /\ call.status = "done" /\ call.a = Vec3(0, 0, Fx)) => call.world = call.w

\* the local (0,0,1) has been transformed by the basis of a vector off every axis
C15_Witness ==
    /\ OnbBuilt
    /\ call.status = "done"
    /\ call.a = Vec3(0, 0, Fx)
    /\ \A i \in 1..3 : call.w[i] # 0

\* C16: the helper axis is the world Y axis unless |w.x| > 0.9, and then the
\* world X axis; it is never parallel to w, so cross(w, a) is not the zero vector.
C16_Claim ==
    OnbBuilt =>
        /\ call.helper = IF Abs(call.w[1]) * 10 > 9 * Fx
                          THEN Vec3(Fx, 0, 0) ELSE Vec3(0, Fx, 0)
        /\ Cross(call.w, call.helper) # Vec3(0, 0, 0)

\* C16 as amended: the helper axis is the world X axis unless |w.x| > 0.9, and
\* then the world Y axis; it is never parallel to w, so cross(w, a) is not the
\* zero vector.
C16_HelperNotParallel ==
    OnbBuilt =>
        /\ call.helper = IF Abs(call.w[1]) * 10 > 9 * Fx
                          THEN Vec3(0, Fx, 0) ELSE Vec3(Fx, 0, 0)
        /\ Cross(call.w, call.helper) # Vec3(0, 0, 0)

\* a basis has been built around the world X axis itself
C16_Witness == OnbBuilt /\ call.w = Vec3(Fx, 0, 0) /\ call.helper = Vec3(0, Fx, 0)

\* C17: the frame {u, v, w} = {right, front, up} is right-handed: cross(u, v) = w.
C17_Claim ==
    OnbBuilt =>
        VDivS(Cross(OnbRight(call.onb), OnbFront(call.onb)), Fx) = OnbUp(call.onb)

(***************************************************************************)
(* Properties of Sphere::hit (SpecSphere).                                 *)
(***************************************************************************)
SphereDone == call.status = "done" /\ call.fn = "Sphere::hit"

\* m, b and c of a call, as the claim defines them
SphereM == VSub(call.ray.origin, call.sphere.center)

SphereB == IDiv(Dot(SphereM, call.ray.direction), Fx)

SphereC == Dot(SphereM, SphereM) - call.sphere.radius * call.sphere.radius

\* the root the claim selects: the smaller one, the larger one if that is negative
SphereT ==
    IF -SphereB - Sqrt(SphereB * SphereB - SphereC) < 0
    THEN -SphereB + Sqrt(SphereB * SphereB - SphereC)
    ELSE -SphereB - Sqrt(SphereB * SphereB - SphereC)

SpherePoint == VAdd(call.ray.origin, VDivS(VMulS(call.ray.direction, SphereT), Fx))

\* C20: Sphere::hit returns None when (c > 0 and b > 0) or b^2 - c < 0; otherwise
\* it returns a hit at the selected root t exactly when min_t < t < max_t, with
\* point = origin + t*dir and normal = (point - center)/radius.
C20_SphereHit ==
    SphereDone =>
        IF (SphereC > 0 /\ SphereB > 0) \/ SphereB * SphereB - SphereC < 0
        THEN ~call.result.some
        ELSE /\ call.result.some <=> (call.min_t < SphereT /\ SphereT < call.max_t)
             /\ call.result.some =>
                   /\ call.result.hit.t = SphereT
                   /\ call.result.hit.point = SpherePoint
                   /\ VMulS(call.result.hit.normal, call.sphere.radius) =
                         VMulS(VSub(SpherePoint, call.sphere.center), Fx)

\* a ray that starts inside the sphere has hit it at the larger root
C20_Witness ==
    /\ SphereDone
    /\ SphereC < 0
    /\ call.result.some
    /\ call.result.hit.t = -SphereB + Sqrt(SphereB * SphereB - SphereC)
    /\ call.result.hit.t # -SphereB - Sqrt(SphereB * SphereB - SphereC)

(***************************************************************************)
(* Properties of Material::sample (SpecMaterial).                          *)
(***************************************************************************)
Sampled(type) ==
    call.status = "done" /\ call.fn = "Material::sample" /\ call.material.material = type

\* C12: for a Mirror material, sample(normal, wo) returns wi with
\* dot(wi, normal) = dot(wo, normal), wi being wo mirrored about the normal,
\* and a weight equal to the albedo.
C12_MirrorSample ==
    Sampled("Mirror") =>
        /\ Dot(call.result.wi, call.normal) = Dot(call.wo, call.normal)
        /\ VMulS(VAdd(call.result.wi, call.wo), Fx * Fx) =
              VMulS(call.normal, 2 * Dot(call.wo, call.normal))
        /\ call.result.weight = Weight("albedo", RatOne)

\* a mirror has reflected a direction that is neither along nor across the normal
C12_Witness ==
    /\ Sampled("Mirror")
    /\ Dot(call.wo, call.normal) \notin {0, Fx * Fx, -(Fx * Fx)}
    /\ call.result.wi # call.wo
    /\ call.result.wi # VNeg(call.wo)

\* C13: for a Transparent material the weight returned by sample equals the
\* albedo in the reflection branch and in the refraction branch.
C13_Claim == Sampled("Transparent") => call.result.weight = Weight("albedo", RatOne)

\* the branch of a Transparent sample: refraction is taken when r <= fr
Refracted ==
    /\ Sampled("Transparent")
    /\ RatLeq(call.r, Fresnel(VNeg(call.wo), call.normal, call.material.ior, Fx))

\* eta = etai / etat of the refraction: 1 / ior for a ray that enters the medium
\* (dot(incident, normal) < 0), ior for a ray that leaves it
Eta ==
    IF Dot(VNeg(call.wo), call.normal) < 0
    THEN <<call.material.ior[2], call.material.ior[1]>>
    ELSE call.material.ior

\* the sign of k = 1 - eta^2 (1 - cos_i^2): k times (eta[2] * Fx * Fx)^2
Discriminant ==
    Eta[2] * Eta[2] * Fx * Fx * Fx * Fx
        - Eta[1] * Eta[1] * (Fx * Fx * Fx * Fx - Dot(call.wo, call.normal) * Dot(call.wo, call.normal))

\* C14: when a Transparent sample takes the refraction branch and the refraction
\* discriminant is negative, the direction returned is the reflection direction;
\* the sample never returns the zero vector as a direction.
C14_Claim ==
    /\ Sampled("Transparent") => call.result.wi # Vec3(0, 0, 0)
    /\ (Refracted /\ Discriminant < 0) =>
          call.result.wi = Reflect(VNeg(call.wo), call.normal, Fx)

(***************************************************************************)
(* Properties of the primitives (SpecPrimitive).                           *)
(***************************************************************************)
PrimitiveDone(fn) == call.status = "done" /\ call.fn = fn

\* the triangles of the mesh of the call that accept the ray, by position
AcceptingTriangles ==
    {k \in 1..Len(call.mesh.triangles) :
        TriangleHit(call.mesh.triangles[k], call.ray, call.min_t, call.max_t).some}

\* C21: Mesh::hit returns the hit of the first triangle, in order, that accepts
\* the ray; that hit is the nearest accepted hit over all triangles of the mesh;
\* it returns None only if no triangle is hit.
C21_Claim ==
    PrimitiveDone("Mesh::hit") =>
        /\ call.result.some <=> AcceptingTriangles # {}
        /\ call.result.some =>
              /\ \E k \in AcceptingTriangles :
                    /\ \A j \in AcceptingTriangles : k <= j
                    /\ call.result =
                          TriangleHit(call.mesh.triangles[k], call.ray, call.min_t, call.max_t)
              /\ \A j \in AcceptingTriangles :
                    call.result.hit.t <=
                        TriangleHit(call.mesh.triangles[j], call.ray, call.min_t, call.max_t).hit.t

\* C22: every Hit a primitive returns has min_t < t < max_t; Triangle::hit
\* returns None when the plane distance is below min_t or above max_t.
C22_Claim ==
    (call.status = "done" /\ call.fn \in {"Sphere::hit", "Triangle::hit", "Mesh::hit"}
        /\ call.result.some) =>
        call.min_t < call.result.hit.t /\ call.result.hit.t < call.max_t

(***************************************************************************)
(* Properties of the recursive integrator (SpecRecursive).                 *)
(***************************************************************************)
\* C23: every nested call of trace is made with one fewer bounce than its
\* caller, so the depth of the call `nested` levels down is bounces - nested,
\* and the recursion is never deeper than the bounce budget.
C23_Claim ==
    call.fn = "Renderer::trace" =>
        /\ call.depth = bounces - call.nested
        /\ call.nested <= bounces

\* C28: for every incident direction i and unit normal n,
\* dot(reflect(i, n), n) = dot(i, n); reflect is called by the Mirror arm
\* with i = -wo.
C28_Claim ==
    Sampled("Mirror") =>
        /\ call.result.wi = Reflect(VNeg(call.wo), call.normal, Fx)
        /\ Dot(call.result.wi, call.normal) = Dot(VNeg(call.wo), call.normal)

(***************************************************************************)
(* Properties of Material::sample_f and Material::bsdf (SpecBsdf).         *)
(***************************************************************************)
\* bsdf * |cos| / pdf for a value albedo / PI and a density cos / PI:
\* 0.0 / 0.0 when the density is zero
DerivedDiffuse(cos, pdf) ==
    IF pdf.cos = 0 THEN Weight("nan", RatOne) ELSE Weight("albedo", Ratio(cos, pdf.cos))

\* bsdf * |cos| / pdf for a value albedo / cos and the density 1.0:
\* (albedo / 0.0) * 0.0 when the cosine is zero
DerivedSpecular(bsdf, cos) ==
    IF bsdf.cos = 0 THEN Weight("nan", RatOne) ELSE Weight("albedo", Ratio(cos, bsdf.cos))

DerivedWeight(bsdf, cos, pdf) ==
    IF bsdf.kind = "over_pi" THEN DerivedDiffuse(cos, pdf) ELSE DerivedSpecular(bsdf, cos)

\* the weight of sample is the one derived from sample_f and bsdf on the same draws
Consistent(f, sample) ==
    /\ f.status = "ok"
    /\ sample.wi = f.wi
    /\ MaterialBsdf(call.material, call.normal, call.wo, f.wi, Fx).status = "ok"
    /\ sample.weight =
          DerivedWeight(MaterialBsdf(call.material, call.normal, call.wo, f.wi, Fx),
                        Abs(IDiv(Dot(call.normal, f.wi), Fx)), f.pdf)

\* C25: for every material type, sample_f and bsdf do not fail, and the weight
\* returned by sample equals bsdf(normal, wo, wi) * |cos(normal, wi)| / pdf for
\* the (wi, pdf) that sample_f returns.
C25_Claim ==
    /\ call.status # "panicked"
    /\ (call.status = "done" /\ call.fn = "Material::sample_f") =>
          Consistent(call.result,
                     MaterialSample(call.material, call.normal, call.wo, call.r, call.local, Fx))

\* C26: sample returns a zero weight, never a non-finite one, when the density
\* of the sampled direction (its cosine to the normal) or the outgoing cosine
\* dot(normal, wo) is zero.
C26_Claim ==
    (call.status = "done" /\ call.fn = "Material::sample"
        /\ call.material.material \in {"Lambert", "Physical"}
        /\ (Dot(call.normal, call.result.wi) = 0 \/ Dot(call.normal, call.wo) = 0)) =>
        (call.result.weight.base # "nan" /\ call.result.weight.times = Ratio(0, 1))

(***************************************************************************)
(* The light list in the integrator (SpecTrace).                           *)
(***************************************************************************)
\* C27: on a hit the integrator iterates over all lights and completes without
\* an assertion failure, whether the scene has no, one or several lights.
C27_Claim ==
    /\ tr.status # "panicked"
    /\ Len(scene.lights) \in {0, 1, 2}

(***************************************************************************)
(* Properties of the construction of a scene (SpecScene).                  *)
(***************************************************************************)
\* C29: Scene::new creates a scene without objects and without lights; each
\* Scene::add puts its object at the end of the object list and leaves the
\* objects before it, with their indices, the light list and the background as
\* they were.
C29_AppendOnly ==
    /\ [](call.fn = "Scene::new" => (scene.objects = <<>> /\ scene.lights = <<>>))
    /\ [][/\ call'.fn = "Scene::add"
          /\ Len(scene'.objects) = Len(scene.objects) + 1
          /\ \A k \in 1..Len(scene.objects) : scene'.objects[k] = scene.objects[k]
          /\ scene'.objects[Len(scene'.objects)] = call'.object
          /\ scene'.lights = scene.lights
          /\ scene'.background = scene.background]_vars

\* two different objects were added to a scene that already had two objects
\* and a light
C29_Witness ==
    /\ call.fn = "Scene::add"
    /\ call.adds = 2
    /\ Len(scene.objects) = 4
    /\ scene.lights = <<0>>
    /\ scene.objects[3] # scene.objects[4]
    /\ scene.objects[4] = call.object

====
